---- MODULE Spec2Model ----
(***************************************************************************)
(* Model of the dashboard's search path: the bounded-retry HTTP client     *)
(* (api_utils.APIManager.make_request), the search handler with database   *)
(* fallback (routes/api.py api_search, fallback_database_search), the      *)
(* local query builder (database.DatabaseManager.search_accounts) and the  *)
(* result formatter (api_utils.DataFormatter.format_search_results).       *)
(*                                                                         *)
(* Text values are strings; strip(), lower(), len() and substring tests    *)
(* are computed on them character by character.  Messages are ASCII        *)
(* transliterations of the Turkish literals of the source.                 *)
(***************************************************************************)
EXTENDS Integers, Sequences, FiniteSets, TLC

VARIABLES
    max_retries,   \* Config.API_CONFIG['max_retries'], fixed for the process
    mrState,       \* make_request: "idle" | "running" | "returned" | "raised"
    method,        \* make_request's method argument
    retries0,      \* the retries argument of the outermost make_request call
    retries,       \* the retries argument of the innermost (current) call
    attempts,      \* HTTP requests issued (requests.get / requests.post)
    log,           \* what every pass through the try block met, in order (the logging)
    mrResult,      \* the parsed body returned, or the exception raised
    catalog,       \* fetched_accounts: its columns, in DESCRIBE order
    rows,          \* fetched_accounts: its rows
    pc,            \* api_search: "idle" | "remote" | "done"
    args,          \* request.args of the request being handled
    apiCalls,      \* arguments of every api.search_accounts call of this request
    dbCalls,       \* arguments of every db.search_accounts call of this request
    search_result, \* what db.search_accounts returned (or raised) in the fallback
    connOpen,      \* the connection search_accounts acquired is still open
    resp,          \* the response returned to the caller
    dbFault,       \* the storage failure the local search of this request met
    prev,          \* history: the previous request, its collaborators' outcomes, its response
    call,          \* a function called on its own: its name and arguments
    ret,           \* what that call returned: <<>> before it ends, then <<value>>
    executed,      \* the host commands control_service has run, in order
    authorized_users, \* AuthManager.authorized_users
    admin_users,      \* AuthManager.admin_users
    user_sessions,    \* AuthManager.user_sessions: user id -> session
    first_login       \* history: the first user who gave the correct token

mrVars == <<max_retries, mrState, method, retries0, retries, attempts, log, mrResult>>

dbVars == <<catalog, rows>>

handlerVars == <<pc, args, apiCalls, dbCalls, search_result, connOpen, resp, dbFault>>

callVars == <<call, ret, executed>>

botVars == <<authorized_users, admin_users, user_sessions, first_login>>

vars == <<mrVars, dbVars, handlerVars, prev, callVars, botVars>>

-----------------------------------------------------------------------------
(* Bounds of the model *)

\* largest configured max_retries explored
MaxRetries == 2

\* longest raw query text explored
MaxQueryLen == 2

\* largest page number requested
MaxPage == 3

\* largest of the small page sizes requested (besides the default and one
\* above the cap)
MaxSmallLimit == 2

\* most matching rows the numbered store holds
MaxTotal == 45

\* longest list of raw records formatted in one call
MaxRecords == 3

\* most categories in one statistics list
MaxCategories == 3

\* largest API2_CONFIG['max_retries'] explored
MaxDomainRetries == 2

\* Telegram users that talk to the bot
MaxUsers == 2

-----------------------------------------------------------------------------
(* The remote collaborator: what one HTTP attempt can produce *)

NoValue == [type |-> "none", msg |-> "", status |-> 0]

\* endpoint used by APIManager.search_accounts
SearchEndpoint == "/api/search"

\* statuses for which response.raise_for_status() raises HTTPError
HTTPErrorStatuses == {401, 404, 429, 500, 503}

\* exceptions that are neither Timeout, ConnectionError nor HTTPError:
\* response.json() on an unparsable body, another RequestException
OtherExceptions ==
    { [type |-> "JSONDecodeError", msg |-> "Expecting value", status |-> 0],
      [type |-> "TooManyRedirects", msg |-> "Exceeded 30 redirects", status |-> 0] }

\* parsed JSON bodies of a 2xx answer: an object (with or without its own
\* 'debug' entry; 'results' a list or null) or a JSON array
Bodies ==
    { [shape |-> "object", debug |-> d, results |-> "list"] : d \in {"absent", "upstream"} }
    \cup { [shape |-> "object", debug |-> "absent", results |-> "null"],
           [shape |-> "array", debug |-> "absent", results |-> "absent"] }

NoBody == [shape |-> "none", debug |-> "absent", results |-> "absent"]

Outcomes ==
    { [kind |-> "timeout", status |-> 0, exc |-> NoValue, body |-> NoBody],
      [kind |-> "connection", status |-> 0, exc |-> NoValue, body |-> NoBody] }
    \cup { [kind |-> "http", status |-> s, exc |-> NoValue, body |-> NoBody] :
              s \in HTTPErrorStatuses }
    \cup { [kind |-> "other", status |-> 0, exc |-> e, body |-> NoBody] :
              e \in OtherExceptions }
    \cup { [kind |-> "ok", status |-> 200, exc |-> NoValue, body |-> b] :
              b \in Bodies }

-----------------------------------------------------------------------------
(* APIManager.make_request *)

Exc(m) == [type |-> "Exception", msg |-> m, status |-> 0]

TimeoutError == Exc("API zaman asimi - sunucu yanit vermiyor")

UnreachableError == Exc("API sunucusuna baglanilamiyor")

\* the if/elif chain of the HTTPError handler
HTTPErrorClass(status, endpoint) ==
    IF status = 401 THEN Exc("API yetkilendirme hatasi")
    ELSE IF status = 404 THEN Exc("API endpoint bulunamadi: " \o endpoint)
    ELSE IF status = 429 THEN Exc("API rate limit asildi")
    ELSE [type |-> "Exception",
          msg |-> "API sunucu hatasi: " \o ToString(status),
          status |-> status]

UnsupportedMethodError(m) ==
    [type |-> "ValueError", msg |-> "Desteklenmeyen HTTP metodu: " \o m, status |-> 0]

\* the guard of both retrying handlers
RetryAllowedBug(r) == r <= max_retries
RetryAllowed(r) == r < max_retries

\* except requests.exceptions.Timeout
OnTimeoutBug(r) ==
    IF r < max_retries + 1 THEN [act |-> "retry", exc |-> NoValue]
    ELSE [act |-> "raise", exc |-> TimeoutError]
OnTimeout(r) ==
    IF RetryAllowed(r) THEN [act |-> "retry", exc |-> NoValue]
    ELSE [act |-> "raise", exc |-> TimeoutError]

\* except requests.exceptions.ConnectionError
OnConnectionErrorBug(r) == OnTimeout(r)
OnConnectionError(r) == [act |-> "raise", exc |-> UnreachableError]

\* except requests.exceptions.HTTPError
OnHTTPErrorBug(r, status, endpoint) ==
    IF RetryAllowed(r) THEN [act |-> "retry", exc |-> NoValue]
    ELSE [act |-> "raise", exc |-> HTTPErrorClass(status, endpoint)]
OnHTTPError(r, status, endpoint) ==
    [act |-> "raise", exc |-> HTTPErrorClass(status, endpoint)]

\* except Exception as e: retry, or a bare raise of e
OnOtherExceptionBug(r, e) == [act |-> "raise", exc |-> e]
OnOtherException(r, e) ==
    IF RetryAllowed(r) THEN [act |-> "retry", exc |-> NoValue]
    ELSE [act |-> "raise", exc |-> e]

\* which except clause an attempt's outcome reaches
Handle(r, o, endpoint) ==
    CASE o.kind = "timeout" -> OnTimeout(r)
      [] o.kind = "connection" -> OnConnectionError(r)
      [] o.kind = "http" -> OnHTTPError(r, o.status, endpoint)
      [] o.kind = "other" -> OnOtherException(r, o.exc)
      [] OTHER -> [act |-> "return", exc |-> NoValue]

\* the state after one pass through make_request's try block. A retry is the
\* recursive call with retries + 1; whatever the recursive call returns or
\* raises leaves the outer frames unchanged (an exception raised inside an
\* except clause is not caught by the sibling clauses of the same try).
AfterPass(o, issued) ==
    LET h == Handle(retries, o, SearchEndpoint) IN
    /\ attempts' = attempts + issued
    /\ log' = Append(log, o)
    /\ retries' = IF h.act = "retry" THEN retries + 1 ELSE retries
    /\ mrState' = CASE h.act = "retry" -> "running"
                    [] h.act = "raise" -> "raised"
                    [] OTHER -> "returned"
    /\ mrResult' = CASE h.act = "raise" -> [exc |-> h.exc, body |-> NoBody]
                     [] h.act = "return" -> [exc |-> NoValue, body |-> o.body]
                     [] OTHER -> mrResult
    /\ UNCHANGED <<max_retries, method, retries0>>

NoResult == [exc |-> NoValue, body |-> NoBody]

Methods == {"GET", "POST", "PUT"}

\* a caller enters make_request(endpoint, method, retries=r0)
CallMakeRequest ==
    /\ mrState = "idle"
    /\ pc = "idle"
    /\ \E m \in Methods, r0 \in 0..(MaxRetries + 1) :
          /\ method' = m
          /\ retries0' = r0
          /\ retries' = r0
    /\ mrState' = "running"
    /\ attempts' = 0
    /\ log' = <<>>
    /\ mrResult' = NoResult
    /\ UNCHANGED <<max_retries, dbVars, botVars, handlerVars, prev, callVars>>

\* GET / POST branch: one requests.get or requests.post, raise_for_status,
\* response.json(), and the except clause the outcome reaches
HttpAttempt ==
    /\ mrState = "running"
    /\ method \in {"GET", "POST"}
    /\ \E o \in Outcomes : AfterPass(o, 1)
    /\ UNCHANGED <<dbVars, botVars, handlerVars, prev, callVars>>

\* else branch: ValueError raised inside the try block, no request issued;
\* it reaches the generic except Exception clause
UnsupportedMethod ==
    /\ mrState = "running"
    /\ method \notin {"GET", "POST"}
    /\ AfterPass([kind |-> "other", status |-> 0,
                  exc |-> UnsupportedMethodError(method), body |-> NoBody], 0)
    /\ UNCHANGED <<dbVars, botVars, handlerVars, prev, callVars>>

-----------------------------------------------------------------------------
(* Text: Python str operations and MySQL LIKE *)

\* SQL NULL / Python None in a text column
NULL == "<NULL>"

Min(a, b) == IF a < b THEN a ELSE b

CharAt(s, i) == SubSeq(s, i, i)

\* str.strip(): leading and trailing whitespace removed
RECURSIVE LStrip(_)
LStrip(s) == IF Len(s) > 0 /\ CharAt(s, 1) = " " THEN LStrip(SubSeq(s, 2, Len(s))) ELSE s

RECURSIVE RStrip(_)
RStrip(s) ==
    IF Len(s) > 0 /\ CharAt(s, Len(s)) = " " THEN RStrip(SubSeq(s, 1, Len(s) - 1)) ELSE s

Strip(s) == RStrip(LStrip(s))

LowerChar(c) == IF c = "A" THEN "a" ELSE IF c = "B" THEN "b" ELSE c

\* str.lower()
RECURSIVE Lower(_)
Lower(s) == IF Len(s) = 0 THEN "" ELSE LowerChar(CharAt(s, 1)) \o Lower(SubSeq(s, 2, Len(s)))

\* needle in hay (Python's substring test)
Contains(hay, needle) ==
    \E i \in 1..(Len(hay) - Len(needle) + 1) : SubSeq(hay, i, i + Len(needle) - 1) = needle

\* column LIKE '%pattern%' under the default case-insensitive collation;
\* NULL LIKE anything is not true
Like(v, pattern) == v # NULL /\ Contains(Lower(v), Lower(pattern))

\* the elements of a sequence
Range(seq) == { seq[i] : i \in 1..Len(seq) }

\* the first element of cands that satisfies P, as a sequence of length 0 or 1
FirstWhere(cands, P(_)) ==
    LET hits == { i \in 1..Len(cands) : P(cands[i]) } IN
    IF hits = {} THEN <<>>
    ELSE <<cands[CHOOSE i \in hits : \A j \in hits : i <= j]>>

-----------------------------------------------------------------------------
(* The backing store: table fetched_accounts, whose layout is not fixed *)

\* the usual layout; domain is nullable, matching is case-insensitive
StandardTable ==
    [ catalog |-> <<"id", "domain", "username", "password", "region", "source", "fetch_date">>,
      rows |-> {
        [id |-> 3, domain |-> "aaa", username |-> "b", password |-> "b",
         region |-> "eu", source |-> "TXT", fetch_date |-> 4],
        [id |-> 1, domain |-> "bAA", username |-> "aa", password |-> "",
         region |-> "us", source |-> "TXT", fetch_date |-> 3],
        [id |-> 6, domain |-> "b", username |-> "b", password |-> "a a",
         region |-> "eu", source |-> "LOG", fetch_date |-> 2],
        [id |-> 2, domain |-> NULL, username |-> "aa", password |-> "b",
         region |-> "eu", source |-> "TXT", fetch_date |-> 1] } ]

\* no domain column; identifier and secret under later candidate names
LoginSecretTable ==
    [ catalog |-> <<"id", "login", "secret", "created_at">>,
      rows |-> {
        [id |-> 1, login |-> "aab", secret |-> "b", created_at |-> 1],
        [id |-> 3, login |-> "b", secret |-> "aa", created_at |-> 2] } ]

\* two identifier candidates, the first one empty in some rows; no date column
TwoIdentifierTable ==
    [ catalog |-> <<"id", "domain", "username", "email", "pass">>,
      rows |-> {
        [id |-> 1, domain |-> "aa", username |-> "", email |-> "baa", pass |-> "b"],
        [id |-> 2, domain |-> "b", username |-> "aa", email |-> "", pass |-> ""],
        [id |-> 3, domain |-> "baab", username |-> NULL, email |-> "b", pass |-> "aa"] } ]

\* nothing searchable
BareTable ==
    [ catalog |-> <<"id", "note">>,
      rows |-> { [id |-> 1, note |-> "aa"] } ]

Tables == {StandardTable, LoginSecretTable, TwoIdentifierTable, BareTable}

\* storage failures a call can meet: none, no connection, or an Error raised
\* by the DESCRIBE, the COUNT or the page query
DbFaults == {"none", "connect", "describe", "count", "fetch"}

StorageErrorMessage(stage) ==
    CASE stage = "describe" -> "1146 (42S02): Table 'lapsusacc.fetched_accounts' doesn't exist"
      [] stage = "count" -> "2013 (HY000): Lost connection to MySQL server during query"
      [] stage = "fetch" -> "2013 (HY000): Lost connection to MySQL server during query"

UnknownColumnMessage == "1054 (42S22): Unknown column 'domain' in 'where clause'"

SyntaxErrorMessage == "1064 (42000): You have an error in your SQL syntax"

-----------------------------------------------------------------------------
(* DatabaseManager.search_accounts *)

username_columns == <<"username", "user", "email", "login", "user_name", "account">>

password_columns == <<"password", "pass", "pwd", "passwd", "secret">>

date_columns == <<"created_at", "date_added", "timestamp", "date", "created">>

\* search_columns: domain if present, then the first identifier candidate and
\* the first secret candidate present in the catalog
SearchColumnsBug(available) ==
    (IF "domain" \in Range(available) THEN <<"domain">> ELSE <<>>)
    \o SelectSeq(username_columns, LAMBDA c : c \in Range(available))
    \o SelectSeq(password_columns, LAMBDA c : c \in Range(available))
SearchColumns(available) ==
    LET dom == IF "domain" \in Range(available) THEN <<"domain">> ELSE <<>>
        InCat(c) == c \in Range(available)
        usr == FirstWhere(username_columns, LAMBDA c : InCat(c) /\ c \notin Range(dom))
        pwd == FirstWhere(password_columns,
                          LAMBDA c : InCat(c) /\ c \notin Range(dom \o usr))
    IN dom \o usr \o pwd

\* the columns of the OR'd LIKE clause
MatchColumns(available) ==
    IF SearchColumns(available) # <<>> THEN SearchColumns(available) ELSE <<"domain">>

\* the filter conditions appended to the WHERE clause: <<column, operator>>
FilterConditions(available, domain_filter, region_filter, source_filter) ==
    (IF domain_filter # "" THEN {<<"domain", "like">>} ELSE {})
    \cup (IF region_filter # "" /\ "region" \in Range(available)
          THEN {<<"region", "eq">>} ELSE {})
    \cup (IF source_filter # "" /\ "source" \in Range(available)
          THEN {<<"source", "eq">>} ELSE {})

\* every column the WHERE clause names
WhereColumns(available, domain_filter, region_filter, source_filter) ==
    Range(MatchColumns(available))
    \cup { c[1] : c \in FilterConditions(available, domain_filter, region_filter,
                                         source_filter) }

\* the WHERE clause on one row (all its columns exist)
RowMatches(row, available, query, domain_filter, region_filter, source_filter) ==
    /\ \E c \in Range(MatchColumns(available)) : Like(row[c], query)
    /\ (domain_filter # "" => Like(row["domain"], domain_filter))
    /\ (region_filter # "" /\ "region" \in Range(available) =>
            row["region"] = region_filter)
    /\ (source_filter # "" /\ "source" \in Range(available) =>
            row["source"] = source_filter)

\* ORDER BY key: fetch_date, else the first other date candidate, else the
\* first column of the catalog
DateColumn(available) ==
    IF "fetch_date" \in Range(available) THEN "fetch_date"
    ELSE LET alt == FirstWhere(date_columns, LAMBDA c : c \in Range(available)) IN
         IF alt # <<>> THEN alt[1] ELSE available[1]

\* ORDER BY col DESC
RECURSIVE OrderByDesc(_, _)
OrderByDesc(S, col) ==
    IF S = {} THEN <<>>
    ELSE LET top == CHOOSE r \in S : \A o \in S : o[col] <= r[col] IN
         <<top>> \o OrderByDesc(S \ {top}, col)

\* LIMIT lim OFFSET off
Page(seq, lim, off) == SubSeq(seq, off + 1, Min(Len(seq), off + lim))

\* total_pages = (total_count + limit - 1) // limit
TotalPagesBug(total, limit) == total \div limit
TotalPages(total, limit) == (total + limit - 1) \div limit

\* offset = (page - 1) * limit
Offset(page, limit) == (page - 1) * limit

ErrorResultBug(msg, open) ==
    [raised |-> NoValue, keys |-> {"results", "total"}, error |-> msg,
     results |-> <<>>, total |-> 0, pages |-> 0, page |-> 0,
     available_columns |-> <<>>, search_columns |-> <<>>, open |-> open]
ErrorResult(msg, open) ==
    [raised |-> NoValue, keys |-> {"results", "total", "error"}, error |-> msg,
     results |-> <<>>, total |-> 0, pages |-> 0, page |-> 0,
     available_columns |-> <<>>, search_columns |-> <<>>, open |-> open]

RaisedResult(exc, open) ==
    [raised |-> exc, keys |-> {}, error |-> "",
     results |-> <<>>, total |-> 0, pages |-> 0, page |-> 0,
     available_columns |-> <<>>, search_columns |-> <<>>, open |-> open]

ZeroDivisionError ==
    [type |-> "ZeroDivisionError", msg |-> "integer division or modulo by zero", status |-> 0]

\* search_accounts on table tbl with storage fault `fault`; `open` tells whether
\* the connection it acquired is still open when it ends
SearchAccounts(tbl, fault, query, page, limit, domain_filter, region_filter, source_filter) ==
    LET available == tbl.catalog
        cols == WhereColumns(available, domain_filter, region_filter, source_filter)
        matching == { r \in tbl.rows :
                        RowMatches(r, available, query, domain_filter, region_filter,
                                   source_filter) }
        total == Cardinality(matching)
        offset == Offset(page, limit)
    IN
    IF fault = "connect" THEN ErrorResult("Veritabani baglantisi basarisiz", FALSE)
    ELSE IF fault = "describe" THEN ErrorResult(StorageErrorMessage("describe"), FALSE)
    ELSE IF ~(cols \subseteq Range(available)) THEN ErrorResult(UnknownColumnMessage, FALSE)
    ELSE IF fault = "count" THEN ErrorResult(StorageErrorMessage("count"), FALSE)
    ELSE IF limit = 0 THEN RaisedResult(ZeroDivisionError, TRUE)
    ELSE IF limit < 0 \/ offset < 0 THEN ErrorResult(SyntaxErrorMessage, FALSE)
    ELSE IF fault = "fetch" THEN ErrorResult(StorageErrorMessage("fetch"), FALSE)
    ELSE [raised |-> NoValue,
          keys |-> {"results", "total", "pages", "page", "available_columns",
                    "search_columns"},
          error |-> "",
          results |-> Page(OrderByDesc(matching, DateColumn(available)), limit, offset),
          total |-> total,
          pages |-> TotalPages(total, limit),
          page |-> page,
          available_columns |-> available,
          search_columns |-> SearchColumns(available),
          open |-> FALSE]

-----------------------------------------------------------------------------
(* DataFormatter.format_search_results *)

\* Python truthiness of a text value
Truthy(v) == v # NULL /\ v # ""

\* dict.get(col, default)
Get(row, col, default) == IF col \in DOMAIN row THEN row[col] ELSE default

\* the first candidate column present in the record with a truthy value
FirstValueBug(row, cands) == FirstWhere(cands, LAMBDA c : c \in DOMAIN row)
FirstValue(row, cands) ==
    FirstWhere(cands, LAMBDA c : c \in DOMAIN row /\ Truthy(row[c]))

\* value or 'N/A'
OrNABug(found, row) == IF found = <<>> THEN NULL ELSE row[found[1]]
OrNA(found, row) == IF found = <<>> THEN "N/A" ELSE row[found[1]]

\* dates are day numbers, 0 for NULL; isoformat() of a day
IsoFormat(d) == "2025-01-0" \o ToString(d)

DateValue(row) ==
    LET fd == Get(row, "fetch_date", 0)
        ca == Get(row, "created_at", 0)
        da == Get(row, "date_added", 0)
    IN IF fd # 0 THEN fd ELSE IF ca # 0 THEN ca ELSE da

SpidBug(id) == IF id % 3 = 1 THEN "SP" \o ToString(1000 + id) ELSE NULL
Spid(id) == IF id % 3 = 0 THEN "SP" \o ToString(1000 + id) ELSE NULL

FormatResult(row) ==
    [ id |-> Get(row, "id", 0),
      domain |-> Get(row, "domain", ""),
      username |-> OrNA(FirstValue(row, username_columns), row),
      password |-> OrNA(FirstValue(row, password_columns), row),
      region |-> Get(row, "region", "Unknown"),
      source |-> Get(row, "source", "TXT"),
      category |-> Get(row, "category", "uncategorized"),
      spid |-> Spid(Get(row, "id", 0)),
      date |-> IF DateValue(row) # 0 THEN IsoFormat(DateValue(row)) ELSE NULL ]

FormatSearchResultsBug(results, available_columns) ==
    [ i \in 1..Len(results) |-> FormatResult(results[Len(results) + 1 - i]) ]
FormatSearchResults(results, available_columns) ==
    [ i \in 1..Len(results) |-> FormatResult(results[i]) ]

-----------------------------------------------------------------------------
(* DataFormatter.format_categories_stats *)

\* CategoryConfig.ORDER
ORDERBug ==
    << "banks", "government", "popular_turkish", "turkish_extensions",
       "universities", "social_media", "email_providers", "tech_companies" >>
ORDER ==
    << "government", "banks", "popular_turkish", "turkish_extensions",
       "universities", "social_media", "email_providers", "tech_companies" >>

\* round((count / total_count) * 100, 1), held in tenths of a percent: the
\* nearest tenth, an exact tie going to the even one
Percentage(count, total_count) ==
    LET n == count * 1000
        q == n \div total_count
        twice == 2 * (n % total_count)
    IN IF twice > total_count \/ (twice = total_count /\ q % 2 = 1) THEN q + 1 ELSE q

\* category_dict = {cat['category']: cat['count'] for cat in categories}: a
\* later entry of the same category replaces an earlier one
CategoryDict(categories) ==
    [ k \in { categories[i].category : i \in 1..Len(categories) } |->
        LET at == { i \in 1..Len(categories) : categories[i].category = k }
            last == CHOOSE i \in at : \A j \in at : j <= i
        IN categories[last].count ]

\* one chart entry; label, color and icon are lookups by cat_key with a default
ChartEntry(cat_key, count, total_count) ==
    [category |-> cat_key, count |-> count, percentage |-> Percentage(count, total_count)]

FormatCategoriesStats(categories, total_count) ==
    LET category_dict == CategoryDict(categories)
        InDict(k) == k \in DOMAIN category_dict
        Unlisted(c) == c.category \notin Range(ORDER)
        listed == SelectSeq(ORDER, InDict)
        others == SelectSeq(categories, Unlisted)
    IN [ i \in 1..Len(listed) |->
            ChartEntry(listed[i], category_dict[listed[i]], total_count) ]
       \o [ i \in 1..Len(others) |->
              ChartEntry(others[i].category, others[i].count, total_count) ]

-----------------------------------------------------------------------------
(* telegram-api/api.py: SystemServiceManager.control_service *)

\* self.monitored_services
monitored_services ==
    <<"flaskapi.service", "flaskapp.service", "telegrambot.service", "ubu-monitor.service">>

\* if service_name not in self.monitored_services
Monitored(service_name) == service_name \in Range(monitored_services)

\* if action not in ['start', 'stop', 'restart', 'enable', 'disable']
ValidActionBug(action) == TRUE
ValidAction(action) == action \in {"start", "stop", "restart", "enable", "disable"}

\* what running 'sudo systemctl <action> <service>' can do: the process is
\* not spawned (create_subprocess_exec raises), it exits with a return code,
\* or it exits and its output cannot be decoded (decode() raises)
CommandOutcomes ==
    { [kind |-> "spawn_error", returncode |-> 0, stdout |-> "",
       stderr |-> "[Errno 2] No such file or directory: 'sudo'"],
      [kind |-> "exit", returncode |-> 0, stdout |-> "", stderr |-> ""],
      [kind |-> "exit", returncode |-> 0, stdout |-> "done", stderr |-> ""],
      [kind |-> "exit", returncode |-> 1, stdout |-> "", stderr |-> ""],
      [kind |-> "exit", returncode |-> 5, stdout |-> "", stderr |-> "Unit not found."],
      [kind |-> "decode_error", returncode |-> 0, stdout |-> "",
       stderr |-> "'utf-8' codec can't decode byte 0xff in position 0"] }

\* the mapping control_service returns: `keys` are the entries it holds
ServiceResult(keys, success, message, output, error) ==
    [keys |-> keys, success |-> success, message |-> message, output |-> output,
     error |-> error]

\* control_service(service_name, action) when the command behaves as o:
\* the mapping returned and the commands run
ControlService(service_name, action, o) ==
    IF ~Monitored(service_name)
    THEN [result |-> ServiceResult({"success", "message"}, FALSE,
                                   "Service not in monitored list", "", ""),
          executed |-> <<>>]
    ELSE IF ~ValidAction(action)
    THEN [result |-> ServiceResult({"success", "message"}, FALSE, "Invalid action", "", ""),
          executed |-> <<>>]
    ELSE LET command == <<"sudo", "systemctl", action, service_name>> IN
      CASE o.kind = "spawn_error" ->
             [result |-> ServiceResult({"success", "message"}, FALSE,
                                       "Exception: " \o o.stderr, "", ""),
              executed |-> <<>>]
        [] o.kind = "decode_error" ->
             [result |-> ServiceResult({"success", "message"}, FALSE,
                                       "Exception: " \o o.stderr, "", ""),
              executed |-> <<command>>]
        [] o.kind = "exit" /\ o.returncode = 0 ->
             [result |-> ServiceResult({"success", "message", "output"}, TRUE,
                                       "Service " \o action \o " completed successfully",
                                       o.stdout, ""),
              executed |-> <<command>>]
        [] OTHER ->
             [result |-> ServiceResult({"success", "message", "error"}, FALSE,
                                       "Service " \o action \o " failed: " \o o.stderr,
                                       "", o.stderr),
              executed |-> <<command>>]

-----------------------------------------------------------------------------
(* routes/api.py: api_search and fallback_database_search *)

\* limit = min(..., 100)
MAX_LIMIT == 100

\* request.args.get('limit', 20, type=int)
DEFAULT_LIMIT == 20

\* request.args.get('page', 1, type=int)
DEFAULT_PAGE == 1

\* len(query) < 2
MIN_QUERY_LEN == 2

NoPagination == [page |-> 0, pages |-> 0, total |-> 0, has_next |-> FALSE, has_prev |-> FALSE]

NoDebug == [data_source |-> "", search_columns |-> <<>>, available_columns |-> <<>>,
            query |-> "", warning |-> ""]

\* a JSON response: `keys` are the entries the body holds; an entry that is
\* not among them is absent, whatever its field says
NoResp ==
    [status |-> 0, keys |-> {}, success |-> FALSE, error |-> "", data_source |-> "",
     results |-> <<>>, pagination |-> NoPagination, exact_matches |-> 0,
     partial_matches |-> 0, debug |-> NoDebug, body |-> NoBody]

\* jsonify({'success': False, 'error': ...}), 400
ValidationFailure ==
    [NoResp EXCEPT !.status = 400, !.keys = {"success", "error"},
                   !.error = "Arama sorgusu en az 2 karakter olmalidir"]

\* jsonify({'success': False, 'error': ..., 'data_source': ...}), 500
FailureWithResults(msg, source) ==
    [NoResp EXCEPT !.status = 500,
                   !.keys = {"success", "error", "data_source", "results"},
                   !.error = msg, !.data_source = source]
FailureGeneric(msg, source) ==
    [NoResp EXCEPT !.status = 500, !.keys = {"success", "error", "data_source"},
                   !.error = "Arama basarisiz", !.data_source = source]
Failure(msg, source) ==
    [NoResp EXCEPT !.status = 500, !.keys = {"success", "error", "data_source"},
                   !.error = msg, !.data_source = source]

\* the upstream body can be used by lines 184-191: api_response.get(...) needs
\* a JSON object and len(...) a sized 'results'
BodyUsableBug(body) == TRUE
BodyUsable(body) == body.shape = "object" /\ body.results # "null"

\* lines 186-193: debug added when the body has none, then jsonify(api_response)
RemoteResponseBug(body, query) ==
    [NoResp EXCEPT !.status = 200, !.keys = {"body", "debug"}, !.body = body,
                   !.debug = [NoDebug EXCEPT !.data_source = "external_api",
                                             !.query = query]]
RemoteResponse(body, query) ==
    [NoResp EXCEPT !.status = 200, !.keys = {"body", "debug"}, !.body = body,
                   !.debug = IF body.debug = "absent"
                             THEN [NoDebug EXCEPT !.data_source = "external_api",
                                                  !.query = query]
                             ELSE [NoDebug EXCEPT !.data_source = body.debug]]

AttributeErrorMessage == "'NoneType' object has no attribute 'lower'"

\* the 'pagination' entry of the fallback response
Pagination(page, sr) ==
    [page |-> page, pages |-> sr.pages, total |-> sr.total,
     has_next |-> page < sr.pages, has_prev |-> page > 1]

\* fallback_database_search after db.search_accounts gave sr
FallbackResponse(sr, query, page) ==
    IF sr.raised # NoValue THEN Failure(sr.raised.msg, "fallback_error")
    ELSE IF "error" \in sr.keys THEN Failure(sr.error, "fallback_failed")
    ELSE
      LET formatted == FormatSearchResults(sr.results, sr.available_columns) IN
      \* summary: query.lower() in r['domain'].lower() for every formatted r
      IF \E i \in 1..Len(formatted) : formatted[i].domain = NULL
      THEN Failure(AttributeErrorMessage, "fallback_error")
      ELSE
        [NoResp EXCEPT
           !.status = 200,
           !.keys = {"success", "results", "pagination", "summary", "debug"},
           !.success = TRUE,
           !.results = formatted,
           !.pagination = Pagination(page, sr),
           !.exact_matches = Cardinality({ i \in 1..Len(formatted) :
                                 Contains(Lower(formatted[i].domain), Lower(query)) }),
           !.partial_matches = Len(formatted),
           !.debug = [data_source |-> "fallback_database",
                      search_columns |-> sr.search_columns,
                      available_columns |-> sr.available_columns,
                      query |-> query,
                      warning |-> "API basarisiz oldu, veritabanindan arama yapildi"]]

\* the locals api_search derives from request.args (lines 164-169)
QueryOf(a) == Strip(a.q)

PageOfSticky(a) ==
    IF a.page = <<>> THEN (IF prev.set THEN DEFAULT_PAGE + 1 ELSE DEFAULT_PAGE)
    ELSE a.page[1]
PageOf(a) == IF a.page = <<>> THEN DEFAULT_PAGE ELSE a.page[1]

LimitOfBug(a) == IF a.limit = <<>> THEN DEFAULT_LIMIT ELSE a.limit[1]
LimitOf(a) == Min(IF a.limit = <<>> THEN DEFAULT_LIMIT ELSE a.limit[1], MAX_LIMIT)

\* if not query or len(query) < 2
RejectedBug(query) == query = ""
Rejected(query) == query = "" \/ Len(query) < MIN_QUERY_LEN

\* the arguments both search_accounts functions are called with
CallArgs(a) ==
    [query |-> QueryOf(a), page |-> PageOf(a), limit |-> LimitOf(a),
     domain |-> a.domain, region |-> a.region, source |-> a.source]

\* APIManager.search_accounts: the query parameters sent upstream
ApiParams(c) ==
    [q |-> c.query, page |-> c.page, limit |-> c.limit,
     domain |-> IF c.domain # "" THEN <<c.domain>> ELSE <<>>,
     region |-> IF c.region # "" THEN <<c.region>> ELSE <<>>,
     source |-> IF c.source # "" THEN <<c.source>> ELSE <<>>]

NoSearchResult == RaisedResult(NoValue, FALSE)

-----------------------------------------------------------------------------
(* Requests and the handler's steps *)

QueryChars == {" ", "a"}

RECURSIVE StringsUpTo(_)
StringsUpTo(n) ==
    IF n = 0 THEN {""}
    ELSE LET S == StringsUpTo(n - 1) IN S \cup { s \o c : s \in S, c \in QueryChars }

\* an argument is <<>> when absent (or not an integer: type=int then yields
\* the default), else <<value>>
PageInputs == {<<>>} \cup { <<n>> : n \in (0..MaxPage) \ {DEFAULT_PAGE} }

LimitInputs == {<<>>, <<MAX_LIMIT + 1>>} \cup { <<n>> : n \in (-1)..MaxSmallLimit }

RequestArgs ==
    [ q : StringsUpTo(MaxQueryLen), page : PageInputs, limit : LimitInputs,
      domain : {"", "a"}, region : {"", "eu"}, source : {"", "TXT"} ]

\* what one complete make_request('/api/search', 'GET', retries = r) can give
\* its caller: every pass meets one of Outcomes, a retrying pass is followed by
\* the passes of the recursive call
RECURSIVE MakeRequestResults(_)
MakeRequestResults(r) ==
    LET passes == { [o |-> o, h |-> Handle(r, o, SearchEndpoint)] : o \in Outcomes }
        ended == { p \in passes : p.h.act # "retry" }
    IN { [state |-> IF p.h.act = "raise" THEN "raised" ELSE "returned",
          result |-> [exc |-> p.h.exc, body |-> p.o.body]] : p \in ended }
       \cup (IF ended # passes THEN MakeRequestResults(r + 1) ELSE {})

\* a request arrives at the idle handler; the handler runs to its response
Handling(a) ==
    /\ args' = a
    /\ pc' = "done"
    /\ UNCHANGED <<max_retries, method, retries0, retries, attempts, log, dbVars, botVars, callVars>>

\* api_search, lines 164-175: the query is too short
RejectPath(a) ==
    /\ Rejected(QueryOf(a))
    /\ Handling(a)
    /\ apiCalls' = <<>>
    /\ dbCalls' = <<>>
    /\ UNCHANGED <<mrState, mrResult, search_result, connOpen, dbFault>>
    /\ resp' = ValidationFailure

ApiSearchReject ==
    /\ pc = "idle"
    /\ mrState = "idle"
    /\ UNCHANGED prev
    /\ \E a \in RequestArgs : RejectPath(a)

\* api_search, lines 164-193: api.search_accounts returned a body that lines
\* 184-191 can use; it is passed on
RemotePath(a) ==
    /\ ~Rejected(QueryOf(a))
    /\ Handling(a)
    /\ apiCalls' = <<ApiParams(CallArgs(a))>>
    /\ \E res \in MakeRequestResults(0) :
          /\ res.state = "returned"
          /\ BodyUsable(res.result.body)
          /\ mrState' = res.state
          /\ mrResult' = res.result
          /\ resp' = RemoteResponse(res.result.body, QueryOf(a))
    /\ dbCalls' = <<>>
    /\ UNCHANGED <<search_result, connOpen, dbFault>>

ApiSearchRemote ==
    /\ pc = "idle"
    /\ mrState = "idle"
    /\ UNCHANGED prev
    /\ \E a \in RequestArgs : RemotePath(a)

\* api_search, lines 164-199, and fallback_database_search: the remote call
\* raised, or lines 184-187 raised on its body; the local search runs against
\* the store as it is, the rows are formatted and the response is built
FallbackPath(a) ==
    /\ ~Rejected(QueryOf(a))
    /\ Handling(a)
    /\ apiCalls' = <<ApiParams(CallArgs(a))>>
    /\ \E fault \in DbFaults :
          LET c == CallArgs(a)
              sr == SearchAccounts([catalog |-> catalog, rows |-> rows], fault,
                                   c.query, c.page, c.limit,
                                   c.domain, c.region, c.source)
              response == FallbackResponse(sr, c.query, c.page)
          IN /\ dbCalls' = <<c>>
             /\ dbFault' = fault
             /\ search_result' = sr
             /\ connOpen' = sr.open
             /\ resp' = response
             /\ \E res \in MakeRequestResults(0) :
                   /\ res.state = "raised" \/ ~BodyUsable(res.result.body)
                   /\ mrState' = res.state
                   /\ mrResult' = res.result

ApiSearchFallback ==
    /\ pc = "idle"
    /\ mrState = "idle"
    /\ UNCHANGED prev
    /\ \E a \in RequestArgs : FallbackPath(a)

NoArgs ==
    [q |-> "", page |-> <<>>, limit |-> <<>>, domain |-> "", region |-> "", source |-> ""]

\* no request has been answered yet
NoPrev ==
    [set |-> FALSE, args |-> NoArgs, mrState |-> "idle", mrResult |-> NoResult,
     dbFault |-> "none", resp |-> NoResp]

\* no function is being called on its own
NoCall == [fn |-> "none"]

NoCallRunning ==
    /\ call = NoCall
    /\ ret = <<>>
    /\ executed = <<>>

\* AuthManager.__init__: nobody is authorized, nobody is admin, no session
BotStarted ==
    /\ authorized_users = {}
    /\ admin_users = {}
    /\ user_sessions = <<>>
    /\ first_login = <<>>

\* the values of everything that lives for one request or one call
RequestScopedInitial ==
    /\ mrState = "idle"
    /\ method = "GET"
    /\ retries0 = 0
    /\ retries = 0
    /\ attempts = 0
    /\ log = <<>>
    /\ mrResult = NoResult
    /\ pc = "idle"
    /\ args = NoArgs
    /\ apiCalls = <<>>
    /\ dbCalls = <<>>
    /\ search_result = NoSearchResult
    /\ connOpen = FALSE
    /\ resp = NoResp
    /\ dbFault = "none"
    /\ prev = NoPrev

\* the search handler is explored over every table layout; it never reads the
\* retry bound, which is explored by SpecRequest
Init ==
    /\ max_retries = MaxRetries
    /\ \E t \in Tables : catalog = t.catalog /\ rows = t.rows
    /\ RequestScopedInitial
    /\ NoCallRunning
    /\ BotStarted

\* the response has been sent: QueryRequest and SearchResponse are request
\* scoped, nothing of them is kept for the next request
ResponseSent ==
    /\ pc = "done"
    /\ pc' = "idle"
    /\ mrState' = "idle"
    /\ mrResult' = NoResult
    /\ args' = NoArgs
    /\ apiCalls' = <<>>
    /\ dbCalls' = <<>>
    /\ search_result' = NoSearchResult
    /\ connOpen' = FALSE
    /\ resp' = NoResp
    /\ dbFault' = "none"
    /\ UNCHANGED <<max_retries, method, retries0, retries, attempts, log, dbVars, botVars, callVars>>

SendResponse == ResponseSent /\ UNCHANGED prev

\* the search handler: one step per path through api_search
Next == ApiSearchReject \/ ApiSearchRemote \/ ApiSearchFallback \/ SendResponse

Spec == Init /\ [][Next]_vars

\* requests that are issued twice
RepeatArgs ==
    [ q : {"a", "aa"}, page : {<<>>, <<2>>}, limit : {<<>>, <<0>>, <<1>>},
      domain : {"", "a"}, region : {""}, source : {""} ]

\* api_search handles a first request, along any of its paths
FirstRequest ==
    /\ pc = "idle"
    /\ mrState = "idle"
    /\ ~prev.set
    /\ UNCHANGED prev
    /\ \E a \in RepeatArgs : RejectPath(a) \/ RemotePath(a) \/ FallbackPath(a)

\* the response goes out and the history keeps the request, what its
\* collaborators did and the response
RememberResponse ==
    /\ ~prev.set
    /\ prev' = [set |-> TRUE, args |-> args, mrState |-> mrState, mrResult |-> mrResult,
                dbFault |-> dbFault, resp |-> resp]
    /\ ResponseSent

\* api_search handles the same request again; the store is unchanged, the
\* remote call and the storage are free to behave as before or otherwise
SameRequestAgain ==
    /\ pc = "idle"
    /\ mrState = "idle"
    /\ prev.set
    /\ UNCHANGED prev
    /\ RejectPath(prev.args) \/ RemotePath(prev.args) \/ FallbackPath(prev.args)

ForgetHistory ==
    /\ prev.set
    /\ prev' = NoPrev
    /\ ResponseSent

NextRepeat == FirstRequest \/ RememberResponse \/ SameRequestAgain \/ ForgetHistory

SpecRepeat == Init /\ [][NextRepeat]_vars

\* the direct caller has its answer; the client is ready for the next call
FinishCall ==
    /\ pc = "idle"
    /\ mrState \in {"returned", "raised"}
    /\ mrState' = "idle"
    /\ UNCHANGED <<max_retries, method, retries0, retries, attempts, log, mrResult>>
    /\ UNCHANGED <<dbVars, botVars, handlerVars, prev, callVars>>

\* make_request is explored over every retry bound; it never reads the store
InitRequest ==
    /\ max_retries \in 0..MaxRetries
    /\ catalog = StandardTable.catalog
    /\ rows = StandardTable.rows
    /\ RequestScopedInitial
    /\ NoCallRunning
    /\ BotStarted

\* make_request called on its own, with any method and any starting counter,
\* one step per pass through its try block
NextRequest == CallMakeRequest \/ HttpAttempt \/ UnsupportedMethod \/ FinishCall

SpecRequest == InitRequest /\ [][NextRequest]_vars

\* a pass that has been entered runs to its return, raise or recursive call:
\* every HTTP request carries the configured timeout, and the else branch
\* raises at once
SpecRequestFair ==
    SpecRequest /\ WF_vars(HttpAttempt) /\ WF_vars(UnsupportedMethod)

-----------------------------------------------------------------------------
(* Functions called on their own, with arguments drawn from bounded sets *)

\* fetched_accounts holding n rows numbered 1..n that all match the query
\* 'aa'; it has no date column, so the rows are ordered by the first column
NumberedTable(n) ==
    [ catalog |-> <<"id", "domain">>,
      rows |-> { [id |-> i, domain |-> "aa"] : i \in 1..n } ]

PageSizes == (1..MaxSmallLimit) \cup {DEFAULT_LIMIT}

\* fallback_database_search('aa', page, limit) over a store of `total` matches
FallbackCalls ==
    { [fn |-> "fallback_database_search", total |-> n, page |-> p, limit |-> l] :
        n \in 0..MaxTotal, p \in 1..MaxPage, l \in PageSizes }

\* one column of a raw record: absent, or holding one of vals
Column(c, vals) == {<<>>} \cup { c :> v : v \in vals }

\* raw records as cursor(dictionary=True) yields them, over some of the
\* candidate columns; a column can hold NULL or the empty string
RawRecords ==
    { i @@ u @@ e @@ l @@ pw @@ sc :
        i \in Column("id", {0, 1, 3, 4}),
        u \in Column("username", {"", NULL, "u"}),
        e \in Column("email", {"e"}),
        l \in Column("login", {"l"}),
        pw \in Column("password", {"", "p"}),
        sc \in Column("secret", {"s"}) }

\* three different records, for lists
ListRecords ==
    { [id |-> 3, login |-> "l", secret |-> "s"],
      [id |-> 1, username |-> "u", password |-> ""],
      [id |-> 4, domain |-> "aa", email |-> "e"] }

RECURSIVE SeqsUpTo(_, _)
SeqsUpTo(S, n) ==
    IF n = 0 THEN {<<>>}
    ELSE LET T == SeqsUpTo(S, n - 1) IN T \cup { Append(t, x) : t \in T, x \in S }

\* format_search_results(results, available_columns)
FormatCalls ==
    { [fn |-> "format_search_results", results |-> rs, available_columns |-> <<>>] :
        rs \in { <<r>> : r \in RawRecords } \cup SeqsUpTo(ListRecords, MaxRecords) }

CategoryNames == {"government", "banks", "tech_companies", "custom_x", "custom_y"}

\* COUNT(*) of a GROUP BY category: at least 1
CategoryCounts == {1, 5, 10}

\* lists of different categories, as GROUP BY category yields them
CategoryLists ==
    { cs \in SeqsUpTo([category : CategoryNames, count : CategoryCounts], MaxCategories) :
        \A i, j \in 1..Len(cs) : i # j => cs[i].category # cs[j].category }

RECURSIVE SumCounts(_)
SumCounts(cs) == IF cs = <<>> THEN 0 ELSE cs[1].count + SumCounts(Tail(cs))

\* format_categories_stats(categories, total_count): total_count is the sum
\* of the counts (routes/api.py api_stats), or that of a larger population
StatsCalls ==
    { [fn |-> "format_categories_stats", categories |-> cs, total_count |-> t] :
        cs \in CategoryLists, t \in {16} } \cup
    { [fn |-> "format_categories_stats", categories |-> cs,
       total_count |-> SumCounts(cs)] : cs \in CategoryLists }

\* control_service(service_name, action): monitored and other services,
\* supported and other actions
ServiceCalls ==
    { [fn |-> "control_service", service_name |-> sn, action |-> ac] :
        sn \in Range(monitored_services) \cup {"nginx.service", ""},
        ac \in {"start", "stop", "restart", "enable", "disable", "status", ""} }

\* what one search_domain call hands back: the parsed body, a mapping with or
\* without an 'error' key, or a JSON null body (search_domain itself turns
\* every exception into a mapping with an 'error' key)
DomainResults ==
    { [kind |-> "mapping", error |-> ""],
      [kind |-> "error", error |-> "timeout"],
      [kind |-> "error", error |-> "503"],
      [kind |-> "null", error |-> ""] }

\* the value of a function that falls off its end
None == [kind |-> "none", error |-> ""]

\* "error" in result / "error" not in result
ErrorIn(result) ==
    CASE result.kind \in {"null", "none"} -> "TypeError"
      [] result.kind = "error" -> "yes"
      [] OTHER -> "no"

AllAttemptsFailed ==
    [kind |-> "error",
     error |-> "Tum denemeler basarisiz: argument of type 'NoneType' is not iterable"]

\* the body of the for loop from iteration `attempt` on
RECURSIVE RetryLoop(_, _, _)
RetryLoop(n, outcomes, attempt) ==
    IF attempt >= n THEN [value |-> None, calls |-> attempt]
    ELSE LET result == outcomes[attempt + 1]
             last == ~(attempt < n - 1)
         IN CASE ErrorIn(result) = "TypeError" ->
                    IF last THEN [value |-> AllAttemptsFailed, calls |-> attempt + 1]
                    ELSE RetryLoop(n, outcomes, attempt + 1)
              [] ErrorIn(result) = "no" ->
                    [value |-> result, calls |-> attempt + 1]
              [] OTHER ->
                    IF last THEN [value |-> result, calls |-> attempt + 1]
                    ELSE RetryLoop(n, outcomes, attempt + 1)

\* search_domain_with_retry under API2_CONFIG['max_retries'] = n
SearchDomainWithRetry(n, outcomes) == RetryLoop(n, outcomes, 0)

DomainCalls ==
    { [fn |-> "search_domain_with_retry", max_retries |-> n, outcomes |-> os] :
        n \in 0..MaxDomainRetries,
        os \in [1..MaxDomainRetries -> DomainResults] }

Calls ==
    FallbackCalls \cup FormatCalls \cup StatsCalls \cup ServiceCalls
        \cup DomainCalls

\* the other variables while a function runs on its own
CallScoped == UNCHANGED <<mrVars, dbVars, botVars, handlerVars, prev, call>>

FallbackDatabaseSearch ==
    /\ call.fn = "fallback_database_search"
    /\ ret = <<>>
    /\ LET sr == SearchAccounts(NumberedTable(call.total), "none", "aa", call.page,
                                call.limit, "", "", "")
       IN ret' = << [search_result |-> sr,
                     response |-> FallbackResponse(sr, "aa", call.page)] >>
    /\ UNCHANGED executed
    /\ CallScoped

FormatSearchResultsCall ==
    /\ call.fn = "format_search_results"
    /\ ret = <<>>
    /\ ret' = <<FormatSearchResults(call.results, call.available_columns)>>
    /\ UNCHANGED executed
    /\ CallScoped

FormatCategoriesStatsCall ==
    /\ call.fn = "format_categories_stats"
    /\ ret = <<>>
    /\ ret' = <<FormatCategoriesStats(call.categories, call.total_count)>>
    /\ UNCHANGED executed
    /\ CallScoped

ControlServiceCall ==
    /\ call.fn = "control_service"
    /\ ret = <<>>
    /\ \E o \in CommandOutcomes :
          LET done == ControlService(call.service_name, call.action, o) IN
          /\ ret' = <<done.result>>
          /\ executed' = done.executed
    /\ CallScoped

\* the route handlers' call and their check of the result
SearchDomainWithRetryCall ==
    /\ call.fn = "search_domain_with_retry"
    /\ ret = <<>>
    /\ LET done == SearchDomainWithRetry(call.max_retries, call.outcomes) IN
       ret' = << [value |-> done.value, calls |-> done.calls,
                  check |-> ErrorIn(done.value)] >>
    /\ UNCHANGED executed
    /\ CallScoped

InitCalls ==
    /\ max_retries = MaxRetries
    /\ catalog = StandardTable.catalog
    /\ rows = StandardTable.rows
    /\ RequestScopedInitial
    /\ BotStarted
    /\ call \in Calls
    /\ ret = <<>>
    /\ executed = <<>>

NextCalls ==
    \/ FallbackDatabaseSearch
    \/ FormatSearchResultsCall
    \/ FormatCategoriesStatsCall
    \/ ControlServiceCall
    \/ SearchDomainWithRetryCall

SpecCalls == InitCalls /\ [][NextCalls]_vars

-----------------------------------------------------------------------------
(* telegram-api/api.py: AuthManager and the handlers that reach            *)
(* control_service.  A session is modelled by its is_admin flag; one       *)
(* action handles one update.                                              *)

Users == 1..MaxUsers

\* BotConfig.secret_token (the bot refuses to start with an empty one)
secret_token == "lapsus123"

\* AuthManager.is_authorized, through _check_auth
CheckAuth(user_id) == user_id \in authorized_users

\* AuthManager.is_admin, through _check_admin
CheckAdminBug(user_id) == TRUE
CheckAdmin(user_id) == user_id \in admin_users

\* AuthManager.authorize_user
AuthorizeUser(user_id, is_admin) ==
    /\ authorized_users' = authorized_users \cup {user_id}
    /\ admin_users' = IF is_admin THEN admin_users \cup {user_id} ELSE admin_users
    /\ user_sessions' = (user_id :> [is_admin |-> is_admin]) @@ user_sessions

NoServiceResult == ServiceResult({}, FALSE, "", "", "")

\* what a handler did for one update: the reply it sent, the result of
\* control_service if it was called, the host commands that ran
Replied(reply) == [reply |-> reply, result |-> NoServiceResult, executed |-> <<>>]

Controlled(done) ==
    [reply |-> "action_result", result |-> done.result, executed |-> done.executed]

LoginArgs == { <<>>, <<secret_token>>, <<"lapsus">> }

\* /giris [token]
CmdLogin ==
    \E u \in Users, a \in LoginArgs :
        /\ call' = [fn |-> "cmd_login", user |-> u, args |-> a]
        /\ executed' = <<>>
        /\ IF Len(a) = 0
           THEN /\ ret' = <<Replied("usage")>>
                /\ UNCHANGED botVars
           ELSE IF a[1] = secret_token
           THEN LET is_admin == Cardinality(authorized_users) = 0 IN
                /\ AuthorizeUser(u, is_admin)
                /\ first_login' = IF first_login = <<>> THEN <<u>> ELSE first_login
                /\ ret' = <<Replied(IF is_admin THEN "welcome Admin"
                                    ELSE "welcome User")>>
           ELSE /\ ret' = <<Replied("authentication_failed")>>
                /\ UNCHANGED botVars
        /\ UNCHANGED <<mrVars, dbVars, handlerVars, prev>>

ServiceArgs ==
    { <<>>, <<"restart">>,
      <<"restart", "telegrambot.service">>, <<"stArt", "flaskapi.service">>,
      <<"status", "telegrambot.service">>, <<"stop", "nginx.service">> }

\* cmd_service_control for one update
ServiceControl(user_id, a, o) ==
    IF ~CheckAuth(user_id) THEN Replied("unauthorized")
    ELSE IF ~CheckAdmin(user_id) THEN Replied("admin_only")
    ELSE IF Len(a) < 2 THEN Replied("control_panel")
    ELSE LET action == Lower(a[1])
             service_name == a[2]
         IN IF action \notin {"start", "stop", "restart", "enable", "disable"}
            THEN Replied("invalid_action")
            ELSE IF ~Monitored(service_name) THEN Replied("service_not_found")
            ELSE Controlled(ControlService(service_name, action, o))

\* /servisyonet [action service]
CmdServiceControl ==
    \E u \in Users, a \in ServiceArgs, o \in CommandOutcomes :
        LET done == ServiceControl(u, a, o) IN
        /\ call' = [fn |-> "cmd_service_control", user |-> u, args |-> a]
        /\ ret' = <<[reply |-> done.reply, result |-> done.result]>>
        /\ executed' = done.executed
        /\ UNCHANGED <<mrVars, dbVars, handlerVars, prev, botVars>>

\* s.startswith(prefix)
StartsWith(s, prefix) ==
    Len(s) >= Len(prefix) /\ SubSeq(s, 1, Len(prefix)) = prefix

\* position of the first "_" of s at or after i, 0 if there is none
RECURSIVE FindUnderscore(_, _)
FindUnderscore(s, i) ==
    IF i > Len(s) THEN 0
    ELSE IF CharAt(s, i) = "_" THEN i
    ELSE FindUnderscore(s, i + 1)

\* data.split("_", 2): at most two splits, the rest kept whole
SplitTwice(data) ==
    LET i == FindUnderscore(data, 1) IN
    IF i = 0 THEN <<data>>
    ELSE LET j == FindUnderscore(data, i + 1) IN
         IF j = 0 THEN <<SubSeq(data, 1, i - 1), SubSeq(data, i + 1, Len(data))>>
         ELSE <<SubSeq(data, 1, i - 1), SubSeq(data, i + 1, j - 1),
                SubSeq(data, j + 1, Len(data))>>

\* _handle_service_action
HandleServiceAction(user_id, action, service_name, o) ==
    IF ~CheckAdmin(user_id) THEN Replied("admin_required")
    ELSE Controlled(ControlService(service_name, action, o))

CallbackData ==
    { "services_refresh", "services_control", "control_telegrambot.service",
      "action_restart_telegrambot.service", "action_stop_ubu-monitor.service",
      "action_status_telegrambot.service", "action_stop_nginx.service",
      "action_start", "logs_flaskapp.service" }

\* handle_callback_query for one update
CallbackQuery(user_id, data, o) ==
    IF ~CheckAuth(user_id) THEN Replied("access_denied")
    ELSE IF data = "services_refresh" THEN Replied("services")
    ELSE IF data = "services_control"
    THEN (IF ~CheckAdmin(user_id) THEN Replied("admin_required")
          ELSE Replied("control_panel"))
    ELSE IF StartsWith(data, "control_") THEN Replied("control_menu")
    ELSE IF StartsWith(data, "action_")
    THEN LET parts == SplitTwice(data) IN
         IF Len(parts) < 3 THEN Replied("IndexError")
         ELSE HandleServiceAction(user_id, parts[2], parts[3], o)
    ELSE IF StartsWith(data, "logs_") THEN Replied("logs")
    ELSE Replied("")

\* a press on an inline button
HandleCallbackQuery ==
    \E u \in Users, d \in CallbackData, o \in CommandOutcomes :
        LET done == CallbackQuery(u, d, o) IN
        /\ call' = [fn |-> "handle_callback_query", user |-> u, data |-> d]
        /\ ret' = <<[reply |-> done.reply, result |-> done.result]>>
        /\ executed' = done.executed
        /\ UNCHANGED <<mrVars, dbVars, handlerVars, prev, botVars>>

InitBot ==
    /\ max_retries = MaxRetries
    /\ catalog = StandardTable.catalog
    /\ rows = StandardTable.rows
    /\ RequestScopedInitial
    /\ NoCallRunning
    /\ BotStarted

\* the bot handles the updates one at a time, in any order, from any user
NextBot == CmdLogin \/ CmdServiceControl \/ HandleCallbackQuery

SpecBot == InitBot /\ [][NextBot]_vars

-----------------------------------------------------------------------------
(* Properties of api_search *)

Answered == pc = "done"

\* the request passed the validation of lines 171-175
Accepted == Answered /\ apiCalls # <<>>

RemoteFailed == Accepted /\ mrState = "raised"

RemoteReturned == Accepted /\ mrState = "returned"

LocalCalled == dbCalls # <<>>

\* db.search_accounts returned a mapping without an 'error' entry
LocalReturnedRows ==
    LocalCalled /\ search_result.raised = NoValue /\ "error" \notin search_result.keys

\* db.search_accounts reported an error, or raised
LocalFailed ==
    LocalCalled /\ (search_result.raised # NoValue \/ "error" \in search_result.keys)

LocalMessage ==
    IF search_result.raised # NoValue THEN search_result.raised.msg ELSE search_result.error

\* C1: a request whose trimmed query is empty or shorter than 2 characters is
\* answered with a validation failure (success false, HTTP 400) and neither
\* api.search_accounts nor db.search_accounts is called, whatever page, limit
\* and filters are.
C1_ShortQueryRejected ==
    (Answered /\ Len(Strip(args.q)) < 2) =>
        /\ resp.status = 400
        /\ "success" \in resp.keys /\ resp.success = FALSE
        /\ "error" \in resp.keys /\ resp.error # ""
        /\ apiCalls = <<>>
        /\ dbCalls = <<>>

C1_Witness ==
    /\ Answered /\ args.q = " a" /\ args.page = <<0>> /\ args.limit = <<MAX_LIMIT + 1>>
    /\ args.domain = "a" /\ args.region = "eu" /\ args.source = "TXT"
    /\ resp.status = 400 /\ apiCalls = <<>> /\ dbCalls = <<>>

\* C2: when the remote call fails and the local search returns without an
\* error, the response is a success tagged 'fallback_database' with a warning,
\* the matched search columns and the formatted rows of the local search.
C2_FallbackAnswers ==
    (RemoteFailed /\ LocalReturnedRows) =>
        /\ resp.status = 200
        /\ "success" \in resp.keys /\ resp.success = TRUE
        /\ resp.debug.data_source = "fallback_database"
        /\ resp.debug.warning # ""
        /\ resp.debug.search_columns = search_result.search_columns
        /\ "results" \in resp.keys
        /\ resp.results = FormatSearchResults(search_result.results,
                                              search_result.available_columns)
        /\ resp.error = ""

\* C3 as stated: whenever the remote call returns, the response is tagged
\* 'external_api' and the local search is not called.
C3_RemoteAlwaysTagged ==
    RemoteReturned =>
        /\ resp.debug.data_source = "external_api"
        /\ dbCalls = <<>>

\* C3, amended: when the remote call returns a JSON object whose 'results' has
\* a length, the local search is not called and the response is that object;
\* it is tagged 'external_api' (with the query) when the object has no 'debug'
\* entry, and an upstream 'debug' entry is passed on unchanged. Any other 2xx
\* body is handled as a remote failure: the local search is called.
C3_RemotePassedThrough ==
    RemoteReturned =>
        IF mrResult.body.shape = "object" /\ mrResult.body.results = "list"
        THEN /\ dbCalls = <<>>
             /\ resp.status = 200
             /\ resp.body = mrResult.body
             /\ (mrResult.body.debug = "absent" =>
                    /\ resp.debug.data_source = "external_api"
                    /\ resp.debug.query = Strip(args.q))
             /\ (mrResult.body.debug # "absent" =>
                    resp.debug.data_source = mrResult.body.debug)
        ELSE LocalCalled

C3_Witness ==
    /\ RemoteReturned /\ mrResult.body.shape = "object"
    /\ mrResult.body.debug = "absent" /\ mrResult.body.results = "list"
    /\ resp.debug.data_source = "external_api" /\ resp.status = 200
    /\ dbCalls = <<>>

\* C4: when the remote call fails and the local search fails too, the response
\* is a structured failure (success false, an error message, HTTP 500) that
\* holds no results list.
C4_BothFailStructured ==
    (RemoteFailed /\ LocalFailed) =>
        /\ resp.status = 500
        /\ "success" \in resp.keys /\ resp.success = FALSE
        /\ "error" \in resp.keys /\ resp.error # ""
        /\ "results" \notin resp.keys
        /\ resp.results = <<>>

C4_Witness ==
    /\ RemoteFailed /\ LocalFailed
    /\ search_result.error = "Veritabani baglantisi basarisiz"
    /\ resp.status = 500 /\ resp.data_source = "fallback_failed"

\* C5 as stated: when both fail, the response carries the remote message and
\* the local message.
C5_BothMessages ==
    (RemoteFailed /\ LocalFailed) =>
        /\ Contains(resp.error, mrResult.exc.msg)
        /\ Contains(resp.error, LocalMessage)

\* C5, amended: when both fail, the response carries the message of the local
\* error and nothing of the remote error.
C5_LocalMessageOnly ==
    (RemoteFailed /\ LocalFailed) =>
        /\ resp.error = LocalMessage
        /\ ~Contains(resp.error, mrResult.exc.msg)
        /\ resp.data_source \in {"fallback_failed", "fallback_error"}

C5_Witness ==
    /\ RemoteFailed /\ LocalFailed
    /\ mrResult.exc.msg = "API sunucusuna baglanilamiyor"
    /\ search_result.error = UnknownColumnMessage
    /\ resp.error = UnknownColumnMessage

\* C10: whatever limit the caller supplies, the page size passed to the remote
\* call and to the local search is at most 100.
C10_LimitClamped ==
    /\ \A i \in 1..Len(apiCalls) : apiCalls[i].limit <= 100
    /\ \A i \in 1..Len(dbCalls) : dbCalls[i].limit <= 100

C10_Witness ==
    /\ Answered /\ args.limit = <<101>>
    /\ Len(apiCalls) = 1 /\ apiCalls[1].limit = 100
    /\ Len(dbCalls) = 1 /\ dbCalls[1].limit = 100

\* C11: whatever page and limit the caller supplies (zero and negative ones
\* included), the page and the page size that reach api.search_accounts and
\* db.search_accounts are at least 1, so that the offset is never negative and
\* the page count is never computed with a page size of zero.
C11_PageAndLimitAtLeastOne ==
    /\ \A i \in 1..Len(apiCalls) : apiCalls[i].page >= 1 /\ apiCalls[i].limit >= 1
    /\ \A i \in 1..Len(dbCalls) :
          /\ dbCalls[i].page >= 1
          /\ dbCalls[i].limit >= 1
          /\ Offset(dbCalls[i].page, dbCalls[i].limit) >= 0
    /\ search_result.raised # ZeroDivisionError

\* the second request met what the first one met: the same remote outcome
\* and the same storage behaviour
SameConditions ==
    /\ Answered
    /\ prev.set
    /\ args = prev.args
    /\ mrState = prev.mrState
    /\ mrResult = prev.mrResult
    /\ dbFault = prev.dbFault

-----------------------------------------------------------------------------
(* Properties of the fallback's pagination *)

Returned(fn) == call.fn = fn /\ ret # <<>>

\* C12: in the fallback response, for total >= 0, page >= 1 and page size >= 1,
\* pages is the ceiling of total / page size, the rows fetched start at offset
\* (page - 1) * page size, has_next is page < pages and has_prev is page > 1;
\* total 45 with page size 20 gives 3 pages, and page 3 starts at offset 40
\* with has_next false and has_prev true.
C12_Pagination ==
    Returned("fallback_database_search") =>
        LET total == call.total
            page == call.page
            size == call.limit
            p == ret[1].response.pagination
            results == ret[1].response.results
            offset == (page - 1) * size
            remaining == total - offset
        IN /\ ret[1].response.status = 200
           /\ p.total = total
           /\ p.page = page
           /\ p.pages * size >= total
           /\ (p.pages - 1) * size < total
           /\ p.has_next = (page < p.pages)
           /\ p.has_prev = (page > 1)
           /\ Len(results) = (IF remaining < 0 THEN 0 ELSE Min(size, remaining))
           /\ \A i \in 1..Len(results) : results[i].id = total - offset - (i - 1)
           /\ (total = 45 /\ size = 20 => p.pages = 3)
           /\ (total = 45 /\ size = 20 /\ page = 3 =>
                  /\ results[1].id = 45 - 40
                  /\ ~p.has_next
                  /\ p.has_prev)

C12_Witness ==
    /\ Returned("fallback_database_search")
    /\ call.total = 45 /\ call.limit = 20 /\ call.page = 3
    /\ ret[1].response.pagination.pages = 3
    /\ Len(ret[1].response.results) = 5
    /\ ~ret[1].response.pagination.has_next
    /\ ret[1].response.pagination.has_prev

-----------------------------------------------------------------------------
(* Properties of format_search_results *)

\* the record has column c with a value that is neither NULL nor empty
HasValue(r, c) == c \in DOMAIN r /\ r[c] # NULL /\ r[c] # ""

\* the candidate orders as the specification gives them
IdentifierOrder == <<"username", "user", "email", "login", "user_name", "account">>

SecretOrder == <<"password", "pass", "pwd", "passwd", "secret">>

\* C13: username and password of a formatted result are never null or empty,
\* and each is 'N/A' exactly when no candidate column of the record holds a
\* non-empty value.
C13_SentinelWhenNoCandidate ==
    Returned("format_search_results") =>
        \A i \in 1..Len(ret[1]) :
            LET r == call.results[i]
                f == ret[1][i]
            IN /\ f.username # NULL /\ f.username # ""
               /\ f.password # NULL /\ f.password # ""
               /\ (f.username = "N/A") <=>
                      ~(\E k \in 1..Len(IdentifierOrder) : HasValue(r, IdentifierOrder[k]))
               /\ (f.password = "N/A") <=>
                      ~(\E k \in 1..Len(SecretOrder) : HasValue(r, SecretOrder[k]))

C13_Witness ==
    /\ Returned("format_search_results")
    /\ call.results = << ("id" :> 1) @@ ("username" :> NULL) @@ ("password" :> "") >>
    /\ ret[1][1].username = "N/A"
    /\ ret[1][1].password = "N/A"

\* the value the first candidate of `order` with a non-empty value holds
FirstInOrder(r, order, v) ==
    \A k \in 1..Len(order) :
        (HasValue(r, order[k]) /\ \A j \in 1..(k - 1) : ~HasValue(r, order[j])) =>
            v = r[order[k]]

\* C14: username is the value of the first of username, user, email, login,
\* user_name, account present with a non-empty value, and password, on its
\* own, that of the first of password, pass, pwd, passwd, secret; a record with
\* only login and secret populated yields those two values.
C14_FirstCandidateInOrder ==
    Returned("format_search_results") =>
        \A i \in 1..Len(ret[1]) :
            LET r == call.results[i]
                f == ret[1][i]
            IN /\ FirstInOrder(r, IdentifierOrder, f.username)
               /\ FirstInOrder(r, SecretOrder, f.password)
               /\ (HasValue(r, "login") /\ HasValue(r, "secret")
                     /\ ~HasValue(r, "username") /\ ~HasValue(r, "email")
                     /\ ~HasValue(r, "password")) =>
                      (f.username = r["login"] /\ f.password = r["secret"])

C14_Witness ==
    /\ Returned("format_search_results")
    /\ call.results = << ("username" :> "") @@ ("login" :> "l") @@ ("password" :> "")
                          @@ ("secret" :> "s") >>
    /\ ret[1][1].username = "l"
    /\ ret[1][1].password = "s"

\* C15: spid is 'SP' followed by 1000 + id when id (0 without an id column)
\* is divisible by 3, and null otherwise: 0 gives SP1000, 1 null, 3 SP1003,
\* 4 null.
C15_SpidRule ==
    Returned("format_search_results") =>
        \A i \in 1..Len(ret[1]) :
            LET r == call.results[i]
                id == IF "id" \in DOMAIN r THEN r["id"] ELSE 0
                spid == ret[1][i].spid
            IN /\ (\E k \in 0..id : 3 * k = id) => spid = "SP" \o ToString(1000 + id)
               /\ ~(\E k \in 0..id : 3 * k = id) => spid = NULL
               /\ (id = 0 => spid = "SP1000")
               /\ (id = 1 => spid = NULL)
               /\ (id = 3 => spid = "SP1003")
               /\ (id = 4 => spid = NULL)

C15_Witness ==
    /\ Returned("format_search_results")
    /\ Len(call.results) = 3
    /\ call.results[1]["id"] = 3 /\ ret[1][1].spid = "SP1003"
    /\ call.results[2]["id"] = 4 /\ ret[1][2].spid = NULL
    /\ call.results[3]["id"] = 1 /\ ret[1][3].spid = NULL

\* C16: one formatted result per input record, in input order, the i-th one
\* derived from the i-th record alone: it is what formatting that record on
\* its own gives.
C16_OrderPreserved ==
    Returned("format_search_results") =>
        /\ Len(ret[1]) = Len(call.results)
        /\ \A i \in 1..Len(call.results) :
              /\ ret[1][i] = FormatSearchResults(<<call.results[i]>>, <<>>)[1]
              /\ ret[1][i].id = (IF "id" \in DOMAIN call.results[i]
                                 THEN call.results[i]["id"] ELSE 0)

C16_Witness ==
    /\ Returned("format_search_results")
    /\ Len(call.results) = 3
    /\ call.results[1] # call.results[2] /\ call.results[2] # call.results[3]
    /\ call.results[1] # call.results[3]
    /\ ret[1][1].id = 4 /\ ret[1][2].id = 3 /\ ret[1][3].id = 1

-----------------------------------------------------------------------------
(* Properties of format_categories_stats *)

\* the canonical list as the specification gives it
CanonicalOrder ==
    << "government", "banks", "popular_turkish", "turkish_extensions",
       "universities", "social_media", "email_providers", "tech_companies" >>

\* the place of x in seq (x occurs in it once)
IndexIn(seq, x) == CHOOSE i \in 1..Len(seq) : seq[i] = x

Abs(x) == IF x < 0 THEN 0 - x ELSE x

\* C17: every input category is output exactly once, the canonical ones first
\* in canonical order, then the others in input order, each with its own
\* count and with percentage = count / total * 100 rounded to one decimal;
\* {government: 10, banks: 5, custom_x: 5} with total 20 gives government
\* 50.0, banks 25.0, custom_x 25.0 in that order.
C17_CategoryStatsOrder ==
    Returned("format_categories_stats") =>
        LET in == call.categories
            out == ret[1]
            total == call.total_count
            Canonical(k) == k \in Range(CanonicalOrder)
        IN /\ Len(out) = Len(in)
           /\ \A i \in 1..Len(in) :
                 LET at == { j \in 1..Len(out) : out[j].category = in[i].category } IN
                 /\ Cardinality(at) = 1
                 /\ \A j \in at :
                       /\ out[j].count = in[i].count
                       /\ 2 * Abs(out[j].percentage * total - in[i].count * 1000) <= total
           /\ \A j1, j2 \in 1..Len(out) :
                 j1 < j2 =>
                    LET a == out[j1].category
                        b == out[j2].category
                    IN IF Canonical(a)
                       THEN Canonical(b) =>
                               IndexIn(CanonicalOrder, a) < IndexIn(CanonicalOrder, b)
                       ELSE /\ ~Canonical(b)
                            /\ \E i1, i2 \in 1..Len(in) :
                                  i1 < i2 /\ in[i1].category = a /\ in[i2].category = b
           /\ (Range(in) = { [category |-> "government", count |-> 10],
                              [category |-> "banks", count |-> 5],
                              [category |-> "custom_x", count |-> 5] } /\ total = 20) =>
                  out = << [category |-> "government", count |-> 10, percentage |-> 500],
                           [category |-> "banks", count |-> 5, percentage |-> 250],
                           [category |-> "custom_x", count |-> 5, percentage |-> 250] >>

C17_Witness ==
    /\ Returned("format_categories_stats")
    /\ call.categories = << [category |-> "custom_x", count |-> 5],
                            [category |-> "banks", count |-> 5],
                            [category |-> "government", count |-> 10] >>
    /\ call.total_count = 20
    /\ ret[1] = << [category |-> "government", count |-> 10, percentage |-> 500],
                   [category |-> "banks", count |-> 5, percentage |-> 250],
                   [category |-> "custom_x", count |-> 5, percentage |-> 250] >>

-----------------------------------------------------------------------------
(* Properties of control_service *)

\* C19: a host command is run only for a monitored service and one of start,
\* stop, restart, enable, disable; for any other service or action nothing is
\* run and the result has success false and a message; in every case, an
\* exception while running the command included, the result is a mapping
\* with a boolean success and a message.
C19_ControlServiceGuarded ==
    Returned("control_service") =>
        LET allowed ==
              /\ call.service_name \in {"flaskapi.service", "flaskapp.service",
                                         "telegrambot.service", "ubu-monitor.service"}
              /\ call.action \in {"start", "stop", "restart", "enable", "disable"}
            result == ret[1]
        IN /\ (executed # <<>> => allowed)
           /\ \A i \in 1..Len(executed) :
                 executed[i] = <<"sudo", "systemctl", call.action, call.service_name>>
           /\ (~allowed => executed = <<>> /\ result.success = FALSE)
           /\ {"success", "message"} \subseteq result.keys
           /\ result.success \in BOOLEAN
           /\ result.message # ""

C19_Witness ==
    /\ Returned("control_service")
    /\ call.service_name = "telegrambot.service" /\ call.action = "restart"
    /\ executed = << <<"sudo", "systemctl", "restart", "telegrambot.service">> >>
    /\ ret[1].success = FALSE
    /\ ret[1].message = "Exception: 'utf-8' codec can't decode byte 0xff in position 0"

\* C20: in the local search a filter (domain, region, source) is applied only
\* when its column is in the discovered catalog; a filter on an absent column
\* adds no condition to the query and causes no error.
C20_FiltersOnlyForPresentColumns ==
    (LocalCalled /\ dbFault = "none" /\ SearchColumns(catalog) # <<>>
        /\ dbCalls[1].page >= 1 /\ dbCalls[1].limit >= 1) =>
        /\ \A c \in FilterConditions(catalog, dbCalls[1].domain, dbCalls[1].region,
                                      dbCalls[1].source) : c[1] \in Range(catalog)
        /\ "error" \notin search_result.keys

-----------------------------------------------------------------------------
(* Properties of the local search *)

\* the local search ran against a reachable store with no filter and a page
\* and page size of at least 1
PlainLocalSearch ==
    /\ LocalCalled
    /\ dbFault = "none"
    /\ dbCalls[1].page >= 1 /\ dbCalls[1].limit >= 1
    /\ dbCalls[1].domain = "" /\ dbCalls[1].region = "" /\ dbCalls[1].source = ""

\* C21: whenever the formatter surfaces a username (a password) other than
\* 'N/A' for a row the local search returned, the value comes from the
\* identifier (secret) column the query builder put into search_columns.
C21_SurfacedFromSearchedColumn ==
    (RemoteFailed /\ LocalReturnedRows /\ resp.status = 200) =>
        \A i \in 1..Len(resp.results) :
            LET row == search_result.results[i]
                searched == Range(search_result.search_columns)
            IN /\ resp.results[i].username # "N/A" =>
                     FirstValue(row, username_columns)[1] \in searched
               /\ resp.results[i].password # "N/A" =>
                     FirstValue(row, password_columns)[1] \in searched

\* the first candidate of `order` that is a column of the catalog
FirstPresent(order, cat) ==
    LET hits == { k \in 1..Len(order) : order[k] \in Range(cat) } IN
    IF hits = {} THEN <<>> ELSE <<order[CHOOSE k \in hits : \A j \in hits : k <= j]>>

\* domain if present, the first identifier candidate present, the first
\* secret candidate present
ExpectedSearchColumns(cat) ==
    (IF "domain" \in Range(cat) THEN <<"domain">> ELSE <<>>)
    \o FirstPresent(IdentifierOrder, cat) \o FirstPresent(SecretOrder, cat)

\* C22: the search term is matched with OR against exactly the discovered
\* search columns, all of them columns of the catalog: domain if present, the
\* first identifier candidate present and the first secret candidate present;
\* only when there is none is the literal domain column matched alone (a
\* column the catalog then does not have).
C22_MatchesDiscoveredColumns ==
    PlainLocalSearch =>
        LET expected == ExpectedSearchColumns(catalog)
            q == dbCalls[1].query
            hits == { r \in rows : \E c \in Range(expected) :
                                      r[c] # NULL /\ Contains(Lower(r[c]), Lower(q)) }
        IN IF expected # <<>>
           THEN /\ "error" \notin search_result.keys
                /\ search_result.search_columns = expected
                /\ Range(expected) \subseteq Range(catalog)
                /\ search_result.total = Cardinality(hits)
                /\ Range(search_result.results) \subseteq hits
           ELSE /\ "domain" \notin Range(catalog)
                /\ search_result.error = UnknownColumnMessage

C22_Witness ==
    /\ PlainLocalSearch
    /\ catalog = <<"id", "domain", "username", "email", "pass">>
    /\ dbCalls[1].query = "aa"
    /\ search_result.search_columns = <<"domain", "username", "pass">>
    /\ search_result.total = 3
    /\ Len(search_result.results) = 3

\* C23: a failure of the local search (no connection, an error in the catalog
\* discovery, the count query or the page fetch) is reported as an error
\* result with an empty results list and the underlying message; no row
\* fetched earlier is returned, and a result carrying an error is handled as
\* a failure of the local search.
C23_StorageErrorReported ==
    /\ (LocalCalled /\ dbFault # "none" /\ search_result.raised = NoValue) =>
          /\ "error" \in search_result.keys
          /\ search_result.error # ""
          /\ (dbFault = "connect" => search_result.error = "Veritabani baglantisi basarisiz")
          /\ search_result.results = <<>>
          /\ search_result.total = 0
    /\ (LocalCalled /\ "error" \in search_result.keys) =>
          /\ resp.status = 500
          /\ resp.success = FALSE
          /\ resp.data_source = "fallback_failed"
          /\ resp.error = search_result.error
          /\ "results" \notin resp.keys

C23_Witness ==
    /\ LocalCalled /\ dbFault = "fetch"
    /\ catalog = StandardTable.catalog /\ dbCalls[1].query = "aa"
    /\ dbCalls[1].page = 1 /\ dbCalls[1].limit = 20 /\ dbCalls[1].domain = ""
    /\ search_result.error = "2013 (HY000): Lost connection to MySQL server during query"
    /\ search_result.results = <<>>
    /\ resp.status = 500 /\ resp.data_source = "fallback_failed"

\* C24: the connection search_accounts acquires is released before the call
\* ends on every path: success, storage error and any other failure raised
\* while it is held; no call ends with its connection open.
C24_ConnectionReleased ==
    (Answered /\ LocalCalled) => ~connOpen

\* C26 as stated: the local search is invoked if and only if the remote call
\* raised; a 2xx parsed body of any shape is answered with the remote
\* response.
C26_FallbackIffRemoteRaised ==
    Accepted =>
        /\ LocalCalled <=> mrState = "raised"
        /\ (mrState = "returned" => resp.body = mrResult.body)

\* C26, amended: the local search is invoked if and only if the remote call
\* raised or returned a body that is not a JSON object with a sized 'results'
\* (a JSON array, an object whose 'results' is null); every other 2xx body
\* is answered with the remote response and no local search.
C26_FallbackIffRemoteUnusable ==
    Accepted =>
        LET unusable == \/ mrResult.body.shape # "object"
                        \/ mrResult.body.results = "null"
        IN /\ LocalCalled <=> (mrState = "raised" \/ (mrState = "returned" /\ unusable))
           /\ (mrState = "returned" /\ ~unusable) =>
                  (resp.status = 200 /\ resp.body = mrResult.body)
           /\ LocalCalled => resp.body = NoBody

C26_Witness ==
    /\ RemoteReturned
    /\ mrResult.body.shape = "array"
    /\ LocalCalled
    /\ resp.status = 200
    /\ resp.debug.data_source = "fallback_database"

-----------------------------------------------------------------------------
(* Properties of search_domain_with_retry *)

\* C28: for every max_retries >= 0 the function calls search_domain at most
\* max_retries times, stops at the first result without an 'error' key and
\* returns a mapping, so the callers' test for 'error' in the result never
\* meets a missing value.
C28_AlwaysReturnsMapping ==
    Returned("search_domain_with_retry") =>
        LET r == ret[1] IN
        /\ r.calls <= call.max_retries
        /\ \A i \in 1..(r.calls - 1) : ErrorIn(call.outcomes[i]) # "no"
        /\ r.value.kind \in {"mapping", "error"}
        /\ r.check # "TypeError"

-----------------------------------------------------------------------------
(* Properties of the bot *)

\* C29: after any sequence of logins the admin set is a subset of the
\* authorized set and holds at most one user, the first who authenticated
\* with the correct token, and every session's is_admin flag equals its
\* user's membership in the admin set.
C29_AdminSetAndSessionFlagAgree ==
    /\ admin_users \subseteq authorized_users
    /\ Cardinality(admin_users) <= 1
    /\ \A u \in admin_users : first_login = <<u>>
    /\ DOMAIN user_sessions = authorized_users
    /\ \A u \in DOMAIN user_sessions :
           user_sessions[u].is_admin = (u \in admin_users)

ControlHandlers == {"cmd_service_control", "handle_callback_query"}

\* C30: on both paths to control_service a host command is executed only
\* for a user who is authorized and an admin, and what is executed is a
\* start, stop, restart, enable or disable of a monitored service; an update
\* from a user who is not an admin executes nothing.
C30_ServiceControlAdminOnly ==
    /\ executed # <<>> =>
          /\ call.fn \in ControlHandlers
          /\ call.user \in authorized_users
          /\ call.user \in admin_users
          /\ \A i \in 1..Len(executed) :
                 /\ executed[i][1] = "sudo" /\ executed[i][2] = "systemctl"
                 /\ ValidAction(executed[i][3])
                 /\ Monitored(executed[i][4])
    /\ (call.fn \in ControlHandlers /\ call.user \notin admin_users) =>
          executed = <<>>

C30_Witness ==
    /\ call.fn = "handle_callback_query"
    /\ call.data = "action_restart_telegrambot.service"
    /\ call.user \in admin_users
    /\ Cardinality(authorized_users) = 2
    /\ executed = << <<"sudo", "systemctl", "restart", "telegrambot.service">> >>
    /\ ret[1].result.success

-----------------------------------------------------------------------------
(* Properties of make_request *)

Finished == mrState \in {"raised", "returned"}

AllOfKind(k) == \A i \in 1..Len(log) : log[i].kind = k

\* the retries argument of the call that made pass i
RetriesAt(i) == retries0 + (i - 1)

\* C6: a call started with retries = 0 in which every attempt times out issues
\* exactly max_retries + 1 HTTP attempts (3 when max_retries = 2) and then
\* fails with the timeout error; it neither stops earlier nor returns.
C6_TimeoutAttempts ==
    (mrState # "idle" /\ retries0 = 0 /\ method \in {"GET", "POST"}
        /\ Len(log) > 0 /\ AllOfKind("timeout")) =>
        /\ attempts = Len(log)
        /\ attempts <= max_retries + 1
        /\ mrState # "returned"
        /\ (attempts <= max_retries => mrState = "running")
        /\ (attempts = max_retries + 1 =>
               mrState = "raised" /\ mrResult.exc = TimeoutError)
        /\ (mrState = "raised" /\ max_retries = 2 => attempts = 3)

C6_Witness ==
    /\ mrState = "raised" /\ retries0 = 0 /\ max_retries = 2
    /\ Len(log) = 3 /\ AllOfKind("timeout") /\ attempts = 3
    /\ mrResult.exc.msg = "API zaman asimi - sunucu yanit vermiyor"

\* C7: a connection failure ends the call at once with the 'unreachable'
\* error: it is the last pass of the call, whatever retries and max_retries.
C7_ConnectionNoRetry ==
    \A i \in 1..Len(log) :
        (mrState # "idle" /\ log[i].kind = "connection") =>
            /\ i = Len(log)
            /\ attempts = Len(log)
            /\ mrState = "raised"
            /\ mrResult.exc.msg = "API sunucusuna baglanilamiyor"

C7_Witness ==
    /\ mrState = "raised" /\ retries0 = 0 /\ retries = 1 /\ max_retries = 2
    /\ Len(log) = 2 /\ log[1].kind = "timeout" /\ log[2].kind = "connection"

\* the error class the status determines, spelled out
ExpectedHTTPMessage(status) ==
    CASE status = 401 -> "API yetkilendirme hatasi"
      [] status = 404 -> "API endpoint bulunamadi: /api/search"
      [] status = 429 -> "API rate limit asildi"
      [] status = 500 -> "API sunucu hatasi: 500"
      [] status = 503 -> "API sunucu hatasi: 503"

\* C8: an HTTP error status ends the call with the error class of the status
\* and no retry, also on an attempt that is itself a retry.
C8_HTTPErrorNoRetry ==
    \A i \in 1..Len(log) :
        (mrState # "idle" /\ log[i].kind = "http") =>
            /\ i = Len(log)
            /\ attempts = Len(log)
            /\ mrState = "raised"
            /\ mrResult.exc.msg = ExpectedHTTPMessage(log[i].status)
            /\ (log[i].status \notin {401, 404, 429} =>
                   mrResult.exc.status = log[i].status)

C8_Witness ==
    /\ mrState = "raised" /\ retries0 = 0 /\ retries = 1 /\ max_retries = 2
    /\ Len(log) = 2 /\ log[1].kind = "timeout"
    /\ log[2].kind = "http" /\ log[2].status = 503
    /\ mrResult.exc.msg = "API sunucu hatasi: 503"

ClassifiedMessages ==
    { "API zaman asimi - sunucu yanit vermiyor", "API sunucusuna baglanilamiyor" }
    \cup { ExpectedHTTPMessage(s) : s \in HTTPErrorStatuses }

\* C9: an exception that is neither a timeout, a connection failure nor an
\* HTTP error makes the call re-issue itself while the retry counter is below
\* max_retries; with the counter at max_retries the call fails with that
\* exception, unclassified (the generic failure).
C9_OtherExceptionRetry ==
    \A i \in 1..Len(log) :
        (mrState # "idle" /\ log[i].kind = "other") =>
            IF RetriesAt(i) < max_retries
            THEN \/ i < Len(log)
                 \/ mrState = "running" /\ retries = RetriesAt(i) + 1
            ELSE /\ i = Len(log)
                 /\ mrState = "raised"
                 /\ mrResult.exc = log[i].exc
                 /\ mrResult.exc.msg \notin ClassifiedMessages

C9_Witness ==
    /\ mrState = "raised" /\ retries0 = 0 /\ retries = max_retries
    /\ method = "GET" /\ Len(log) = 3 /\ AllOfKind("other") /\ attempts = 3
    /\ log[2].exc # log[3].exc
    /\ mrResult.exc = log[3].exc

\* the passes of the call that ended in a recursive call
Retried == Len(log) - (IF Finished THEN 1 ELSE 0)

FirstOk(i) ==
    /\ log[i].kind = "ok"
    /\ \A j \in 1..(i - 1) : log[j].kind # "ok"

BoundedCall ==
    (mrState # "idle" /\ retries0 = 0) =>
        /\ attempts <= max_retries + 1
        /\ Len(log) <= max_retries + 1
        /\ retries = Retried
        /\ retries <= max_retries
        /\ \A i \in 1..Retried : log[i].kind \in {"timeout", "other"}
        /\ (mrState = "returned" =>
               /\ Len(log) > 0
               /\ FirstOk(Len(log))
               /\ mrResult.body = log[Len(log)].body
               /\ mrResult.exc = NoValue)
        /\ (mrState = "raised" =>
               /\ Len(log) > 0
               /\ log[Len(log)].kind # "ok"
               /\ mrResult.exc # NoValue)

\* C25: whatever the outcomes of the attempts, a call started with
\* retries = 0 issues at most max_retries + 1 attempts, timeouts and other
\* exceptions advance the one retry counter, and the call always ends: it
\* returns the body of its first successful attempt or raises an error.
C25_AttemptsBoundedAndTerminates ==
    /\ []BoundedCall
    /\ (mrState = "running" ~> Finished)

C25_Witness ==
    /\ mrState = "raised" /\ retries0 = 0 /\ max_retries = 2
    /\ method = "GET" /\ attempts = 3 /\ Len(log) = 3
    /\ log[1].kind = "timeout" /\ log[2].kind = "other"
    /\ log[3].kind = "timeout"
    /\ mrResult.exc = TimeoutError

\* C27: a method other than GET or POST fails with the unsupported-method
\* error on the first pass: no HTTP request is issued, the retry counter
\* is not advanced and the call is never re-entered.
C27_UnsupportedMethodNotRetried ==
    (mrState # "idle" /\ method \notin {"GET", "POST"} /\ Len(log) > 0) =>
        /\ attempts = 0
        /\ Len(log) = 1
        /\ retries = retries0
        /\ mrState = "raised"
        /\ mrResult.exc = UnsupportedMethodError(method)

====
